---------------------------- MODULE Spec2Model ----------------------------
(***************************************************************************)
(* A model of filswan/swan-boost-lib:                                      *)
(*   - storedask/storedask.go : the provider's signed-ask store (SetAsk,   *)
(*     getSignedAsk, sign, storeAsk);                                      *)
(*   - provider/provider.go   : MarketSetAsk;                              *)
(*   - client/client.go       : sendDealToMiner, StorageAsk, doRpc,        *)
(*     ValidateDealConfig, CheckDealWithMinerConfig, CheckDealConfig.      *)
(* Each component has its own specification over the shared variables:     *)
(*   SpecAsk      the signed-ask store, SetAsk calls one after another;    *)
(*   SpecAskConc  the signed-ask store, SetAsk calls that overlap;         *)
(*   SpecMarket   MarketSetAsk requests, each with its SetAsk call;        *)
(*   SpecDeal     sendDealToMiner and its doRpc round trip;                *)
(*   SpecDealFair SpecDeal with the scheduler's fairness;                  *)
(*   SpecRpc      doRpc over every kind of context it can be handed;       *)
(*   SpecRpcFair  SpecRpc with the scheduler's fairness;                   *)
(*   SpecValidate ValidateDealConfig and CheckDealConfig.                  *)
(***************************************************************************)
EXTENDS Integers, Sequences, FiniteSets, TLC

VARIABLES
    \* ---- storedask.go ----
    db,        \* StorageAskDB: miner -> set holding the persisted row, if any
    asks,      \* storedAsk.asks: miner -> set holding the *SignedStorageAsk, if any
    head,      \* the chain height the full node reports (ChainHead().Height())
    pc,        \* caller -> position of its SetAsk call
    call,      \* caller -> arguments and locals of its SetAsk call
    succ,      \* history: miner -> number of SetAsk calls that returned nil
    \* ---- client.go: sendDealToMiner / StorageAsk / doRpc ----
    dpc,       \* position of the sendDealToMiner / StorageAsk / doRpc caller
    deal,      \* arguments, locals and result of the call in progress
    effects,   \* sequence of the external operations the call has performed
    io,        \* position of the goroutine doRpc spawns
    errc,      \* what the goroutine offers on the unbuffered channel errc
    ctx,       \* the context handed to doRpc: its kind and whether Done fired
    peer,      \* what the remote peer has written on the stream
    \* ---- client.go: ValidateDealConfig ----
    vpc,       \* position of the ValidateDealConfig caller
    val,       \* arguments, the dealConfig, queries made and results
    \* ---- client.go: CheckDealConfig ----
    chk        \* position, arguments and result of the CheckDealConfig caller

askVars  == <<db, asks, head, pc, call, succ>>
dealVars == <<dpc, deal, effects, io, errc, ctx, peer>>
valVars  == <<vpc, val, chk>>
vars     == <<db, asks, head, pc, call, succ,
              dpc, deal, effects, io, errc, ctx, peer, vpc, val, chk>>

(***************************************************************************)
(* Bounds of the model.                                                    *)
(***************************************************************************)
MaxCalls  == 3      \* SetAsk is not started for a miner after this many successes
MaxHeight == 2      \* the chain head advances up to this height

(***************************************************************************)
(* Program constants.  Piece sizes are counted in units of 256 bytes, so   *)
(* that 32 GiB fits the checker's integers: 256 B = 1, 32 << 30 B = 2^27.  *)
(***************************************************************************)
DefaultMinPieceSize == 1
DefaultMaxPieceSize == 134217728

Miners      == {"f01"}
Callers     == {1, 2}
Prices      == {50000000}
VPrices     == {5000000}
Durations   == {10}
\* legacytypes.StorageAskOption values: each overrides one field of the draft
OptionSets  == { {}, {[field |-> "MinPieceSize", value |-> 2]},
                     {[field |-> "MaxPieceSize", value |-> 8]},
                     {[field |-> "MinPieceSize", value |-> 2],
                      [field |-> "MaxPieceSize", value |-> 8]} }

Only(S) == CHOOSE x \in S : TRUE


(***************************************************************************)
(*                 storedask/storedask.go : the ask store                  *)
(***************************************************************************)
\* a nil *crypto.Signature
NoSignature == [worker |-> "none", height |-> -1]

\* via: "MarketSetAsk" when the SetAsk call is the one MarketSetAsk makes;
\* minBytes, maxBytes: the piece sizes MarketSetAsk parsed, in bytes

\* legacytypes.SignedStorageAsk{}: no ask, no signature
EmptySignedAsk == [Ask |-> {}, Signature |-> NoSignature]

\* StateMinerInfo(maddr, tsk).Worker: the worker key of the provider as of the
\* tipset at the given height; the provider changes its worker key at height 1
WorkerAt(height) == IF height < 1 THEN "worker-a" ELSE "worker-b"

NoCall == [via |-> "none", minBytes |-> 0, maxBytes |-> 0,
           miner |-> "none", price |-> 0, verifiedPrice |-> 0, duration |-> 0,
           options |-> {}, getErr |-> "nil", readSignErr |-> "nil",
           minerAsk |-> EmptySignedAsk,
           seqno |-> 0, minPieceSize |-> 0, maxPieceSize |-> 0,
           tsHeight |-> 0, ask |-> {}, ret |-> "none"]

\* StorageAskDB.Get: the row of the miner, sql.ErrNoRows when there is none,
\* or the store's own failure
dbGet(m, dbFault) ==
    IF dbFault THEN [row |-> {}, err |-> "DbError"]
    ELSE IF db[m] = {} THEN [row |-> {}, err |-> "ErrNoRows"]
    ELSE [row |-> db[m], err |-> "nil"]

\* StorageAskDB.Update: the row of ask.Miner becomes ask, unless the store fails
dbUpdate(ask, dbFault) ==
    IF dbFault THEN [rows |-> db, err |-> "DbError"]
    ELSE [rows |-> [db EXCEPT ![ask.Miner] = {ask}], err |-> "nil"]

\* mutant: the worker key is resolved at the height recorded in the ask
signAtTimestamp(ask, signOk) ==
    IF signOk
    THEN [sig |-> [worker |-> WorkerAt(ask.Timestamp), height |-> ask.Timestamp],
          err |-> "nil"]
    ELSE [sig |-> NoSignature, err |-> "SignError"]

\* storedAsk.sign -> signMinerData -> getMinerWorkerAddress, signBytes: sign
\* reads the chain head (line 108), the worker key is resolved at that tipset
\* (lines 100, 123) and signs, or one of the full node's calls fails.  The
\* signature is modelled by the key that made it and the height it was
\* resolved at
sign(ask, signOk) ==
    IF signOk
    THEN [sig |-> [worker |-> WorkerAt(head), height |-> head], err |-> "nil"]
    ELSE [sig |-> NoSignature, err |-> "SignError"]

\* mutant: the error of db.Get is dropped like the error of sign
getSignedAskDropsGetError(m, dbFault, signOk) ==
    LET g == dbGet(m, dbFault) IN
    IF g.err # "nil" THEN [signed |-> EmptySignedAsk, err |-> "nil", signErr |-> "nil"]
    ELSE LET ss == sign(Only(g.row), signOk) IN
         IF ss.err # "nil"
         THEN [signed |-> EmptySignedAsk, err |-> "nil", signErr |-> ss.err]
         ELSE [signed |-> [Ask |-> g.row, Signature |-> ss.sig], err |-> "nil",
               signErr |-> "nil"]

\* storedAsk.getSignedAsk.  signed, err: what it returns; signErr: the error
\* of its call of sign (the local err of line 190), "nil" when sign was not
\* called or succeeded
getSignedAsk(m, dbFault, signOk) ==
    LET g == dbGet(m, dbFault) IN
    IF g.err # "nil" THEN [signed |-> EmptySignedAsk, err |-> g.err, signErr |-> "nil"]
    ELSE LET ss == sign(Only(g.row), signOk) IN
         IF ss.err # "nil"
         THEN [signed |-> EmptySignedAsk, err |-> "nil",     \* line 192
               signErr |-> ss.err]
         ELSE [signed |-> [Ask |-> g.row, Signature |-> ss.sig], err |-> "nil",
               signErr |-> "nil"]

\* for _, option := range options { option(ask) }
ApplyOptions(ask, options) ==
    LET mins == {o \in options : o.field = "MinPieceSize"}
        maxs == {o \in options : o.field = "MaxPieceSize"}
        a1   == IF mins = {} THEN ask
                ELSE [ask EXCEPT !.MinPieceSize = Only(mins).value]
    IN  IF maxs = {} THEN a1 ELSE [a1 EXCEPT !.MaxPieceSize = Only(maxs).value]

\* SetAsk, lines 136-151: load the prior ask and derive seqno and piece sizes
SetAskLoad(p) ==
    /\ pc[p] = "idle"
    /\ \E m \in Miners, price \in Prices, vprice \in VPrices, dur \in Durations,
          opts \in OptionSets, dbFault \in BOOLEAN, signOk \in BOOLEAN :
         /\ succ[m] < MaxCalls
         /\ LET r    == getSignedAsk(m, dbFault, signOk)
                args == [NoCall EXCEPT !.miner = m, !.price = price,
                           !.verifiedPrice = vprice, !.duration = dur,
                           !.options = opts, !.getErr = r.err,
                           !.readSignErr = r.signErr, !.minerAsk = r.signed]
            IN  IF r.err # "nil" /\ r.err # "ErrNoRows"
                THEN /\ call' = [call EXCEPT ![p] = [args EXCEPT !.ret = "GetAskError"]]
                     /\ pc' = [pc EXCEPT ![p] = "done"]
                     /\ asks' = asks
                ELSE LET oldAsk == r.signed
                         has    == oldAsk.Ask # {}
                     IN
                     /\ asks' = [asks EXCEPT ![m] = {r.signed}]
                     /\ call' = [call EXCEPT ![p] =
                          [args EXCEPT
                             !.seqno = IF has THEN Only(oldAsk.Ask).SeqNo + 1 ELSE 0,
                             !.minPieceSize = IF has THEN Only(oldAsk.Ask).MinPieceSize
                                              ELSE DefaultMinPieceSize,
                             !.maxPieceSize = IF has THEN Only(oldAsk.Ask).MaxPieceSize
                                              ELSE DefaultMaxPieceSize]]
                     /\ pc' = [pc EXCEPT ![p] = "loaded"]
    /\ UNCHANGED <<db, head, succ, dealVars, valVars>>

\* mutant: the expiry is the duration alone
DraftStorageAskExpiryIsDuration(c, height) ==
    [Price |-> c.price, VerifiedPrice |-> c.verifiedPrice,
     Timestamp |-> height, Expiry |-> c.duration,
     Miner |-> c.miner, SeqNo |-> c.seqno,
     MinPieceSize |-> c.minPieceSize, MaxPieceSize |-> c.maxPieceSize]

\* SetAsk, lines 157-166: the draft &legacytypes.StorageAsk{...} built from the
\* arguments and locals c of the call and the height ts.Height()
DraftStorageAsk(c, height) ==
    [Price |-> c.price, VerifiedPrice |-> c.verifiedPrice,
     Timestamp |-> height, Expiry |-> height + c.duration,
     Miner |-> c.miner, SeqNo |-> c.seqno,
     MinPieceSize |-> c.minPieceSize, MaxPieceSize |-> c.maxPieceSize]

\* SetAsk, lines 153-170: read the chain head, build the draft, apply options
SetAskBuild(p) ==
    /\ pc[p] = "loaded"
    /\ \E headOk \in BOOLEAN :
         IF ~headOk
         THEN /\ call' = [call EXCEPT ![p].ret = "ChainHeadError"]
              /\ pc' = [pc EXCEPT ![p] = "done"]
         ELSE LET c   == call[p]
                  ask == DraftStorageAsk(c, head)
              IN  /\ call' = [call EXCEPT ![p].tsHeight = head,
                                          ![p].ask = {ApplyOptions(ask, c.options)}]
                  /\ pc' = [pc EXCEPT ![p] = "built"]
    /\ UNCHANGED <<db, asks, head, succ, dealVars, valVars>>

\* SetAsk, lines 172-180: sign the draft and put it in the in-memory table
SetAskSign(p) ==
    /\ pc[p] = "built"
    /\ \E signOk \in BOOLEAN :
         LET ask == Only(call[p].ask)
             s   == sign(ask, signOk)
         IN  IF s.err # "nil"
             THEN /\ call' = [call EXCEPT ![p].ret = s.err]
                  /\ pc' = [pc EXCEPT ![p] = "done"]
                  /\ asks' = asks
             ELSE /\ asks' = [asks EXCEPT ![ask.Miner] =
                                 {[Ask |-> {ask}, Signature |-> s.sig]}]
                  /\ pc' = [pc EXCEPT ![p] = "signed"]
                  /\ call' = call
    /\ UNCHANGED <<db, head, succ, dealVars, valVars>>

\* SetAsk, line 181, and storeAsk: persist the unsigned ask and return
SetAskStore(p) ==
    /\ pc[p] = "signed"
    /\ \E dbFault \in BOOLEAN :
         LET ask == Only(call[p].ask)
             u   == dbUpdate(ask, dbFault)
         IN  /\ db' = u.rows
             /\ call' = [call EXCEPT ![p].ret = u.err]
             /\ succ' = IF u.err = "nil"
                        THEN [succ EXCEPT ![ask.Miner] = @ + 1] ELSE succ
    /\ pc' = [pc EXCEPT ![p] = "done"]
    /\ UNCHANGED <<asks, head, dealVars, valVars>>

\* the caller takes the result; the next call of this caller may start
SetAskReturn(p) ==
    /\ pc[p] = "done"
    /\ pc' = [pc EXCEPT ![p] = "idle"]
    /\ call' = [call EXCEPT ![p] = NoCall]
    /\ UNCHANGED <<db, asks, head, succ, dealVars, valVars>>

\* the chain grows while the provider runs
ChainAdvance ==
    /\ head < MaxHeight
    /\ head' = head + 1
    /\ UNCHANGED <<db, asks, pc, call, succ, dealVars, valVars>>

(***************************************************************************)
(*                 provider/provider.go : MarketSetAsk                     *)
(***************************************************************************)
\* the number of bytes in the unit the piece sizes of an ask are counted in
PieceSizeUnit == 256
\* abi.ChainEpoch(720h / build.BlockDelaySecs), lines 95-100, 112, with the
\* block delay of 30 seconds
MarketAskDuration == 86400

\* what units.RAMInBytes returns for the minPieceSize and maxPieceSize strings
MinBytesArgs == {128, 256, 512}
MaxBytesArgs == {0, 256, 2048}
\* the parse of MarketSetAsk that fails first, if any
MarketFailPoints == {"none", "price", "verifiedPrice", "minPieceSize",
                     "maxPieceSize", "minerId"}

\* abi.PaddedPieceSize(bytes) counted in units of 256 bytes
ToUnits(bytes) == bytes \div PieceSizeUnit

\* MarketSetAsk, lines 72-109: the parses and checks made before the store is
\* opened, in order, and the options handed to SetAsk
MarketSetAskArgs(failAt, minBytes, maxBytes) ==
    LET R(err) == [err |-> err, options |-> {}] IN
    IF failAt = "price" THEN R("ParsePriceError")
    ELSE IF failAt = "verifiedPrice" THEN R("ParseVerifiedPriceError")
    ELSE IF failAt = "minPieceSize" THEN R("ParseMinPieceSizeError")
    ELSE IF minBytes < 256 THEN R("MinPieceSizeTooSmall")          \* line 87
    ELSE IF failAt = "maxPieceSize" THEN R("ParseMaxPieceSizeError")
    ELSE IF failAt = "minerId" THEN R("ParseMinerError")
    ELSE [err |-> "nil",
          options |-> {[field |-> "MinPieceSize", value |-> ToUnits(minBytes)],
                       [field |-> "MaxPieceSize", value |-> ToUnits(maxBytes)]}]

\* MarketSetAsk, lines 71-113, up to line 151 of the SetAsk call it makes:
\* the parses and checks, a fresh store over the same database (NewStoredAsk,
\* line 111, whose error is not looked at: SetAsk on the nil store it returns
\* with an error is a nil pointer dereference), then SetAsk with the two
\* piece-size options
MarketSetAsk(p) ==
    /\ pc[p] = "idle"
    /\ \E m \in Miners, price \in Prices, vprice \in VPrices,
          failAt \in MarketFailPoints, minBytes \in MinBytesArgs,
          maxBytes \in MaxBytesArgs, repoOk \in BOOLEAN,
          dbFault \in BOOLEAN, signOk \in BOOLEAN :
         /\ succ[m] < MaxCalls
         /\ LET v     == MarketSetAskArgs(failAt, minBytes, maxBytes)
                fresh == [x \in Miners |-> {}]
                r     == getSignedAsk(m, dbFault, signOk)
                args0 == [NoCall EXCEPT !.via = "MarketSetAsk",
                            !.minBytes = minBytes, !.maxBytes = maxBytes,
                            !.miner = m]
                args  == [args0 EXCEPT !.price = price,
                            !.verifiedPrice = vprice,
                            !.duration = MarketAskDuration,
                            !.options = v.options, !.getErr = r.err,
                            !.readSignErr = r.signErr, !.minerAsk = r.signed]
            IN  IF v.err # "nil"
                THEN /\ call' = [call EXCEPT ![p] = [args0 EXCEPT !.ret = v.err]]
                     /\ pc' = [pc EXCEPT ![p] = "done"]
                     /\ asks' = asks
                ELSE IF ~repoOk
                THEN /\ call' = [call EXCEPT ![p] = [args0 EXCEPT !.ret = "panic"]]
                     /\ pc' = [pc EXCEPT ![p] = "done"]
                     /\ asks' = asks
                ELSE IF r.err # "nil" /\ r.err # "ErrNoRows"
                THEN /\ call' = [call EXCEPT ![p] = [args EXCEPT !.ret = "GetAskError"]]
                     /\ pc' = [pc EXCEPT ![p] = "done"]
                     /\ asks' = fresh
                ELSE LET oldAsk == r.signed
                         has    == oldAsk.Ask # {}
                     IN
                     /\ asks' = [fresh EXCEPT ![m] = {r.signed}]
                     /\ call' = [call EXCEPT ![p] =
                          [args EXCEPT
                             !.seqno = IF has THEN Only(oldAsk.Ask).SeqNo + 1 ELSE 0,
                             !.minPieceSize = IF has THEN Only(oldAsk.Ask).MinPieceSize
                                              ELSE DefaultMinPieceSize,
                             !.maxPieceSize = IF has THEN Only(oldAsk.Ask).MaxPieceSize
                                              ELSE DefaultMaxPieceSize]]
                     /\ pc' = [pc EXCEPT ![p] = "loaded"]
    /\ UNCHANGED <<db, head, succ, dealVars, valVars>>

InitAskVars ==
    /\ db = [m \in Miners |-> {}]
    /\ asks = [m \in Miners |-> {}]
    /\ head = 0
    /\ pc = [p \in Callers |-> "idle"]
    /\ call = [p \in Callers |-> NoCall]
    /\ succ = [m \in Miners |-> 0]

(***************************************************************************)
(*        client/client.go : sendDealToMiner, StorageAsk and doRpc         *)
(***************************************************************************)
ValidCids == {"bafy"}
Cids      == {"bafy", "not-a-cid"}
\* cid.Parse succeeds
CidParses(c) == c \in ValidCids

Heights == {1000, 1500}         \* chain heights the full node reports to the client
DealDurations == {0, 518400}    \* DealParam.Duration
StartEpochs == {0, 2000}        \* DealParam.StartEpoch
HeadOffsets == {0, 300}         \* DealParam.StartEpochHeadOffset
Collaterals == {0, 7}           \* DealParam.ProviderCollateral
BoundsMins  == {10}             \* StateDealProviderCollateralBounds(...).Min

\* Go's int, int64 and uint64 are modelled WordBits wide instead of 64, with
\* the wrap-around of the conversions between them
WordBits == 8
\* 1 << 30 bytes; the piece sizes of a deal are counted in units of 2^28 bytes
GiB == 4

\* uint64(x): x modulo 2^64
Uint64Of(x) == x % (2^WordBits)
\* int64(x), and (*big.Int).Int64(), which keeps the low 64 bits of a value
\* that does not fit: x modulo 2^64, read as a two's complement number
Int64Of(x) ==
    LET m == x % (2^WordBits) IN
    IF m >= 2^(WordBits - 1) THEN m - 2^WordBits ELSE m

\* the pieceSize (int64) and epochPrice (big.Int, attoFIL per epoch per GiB)
\* arguments of StartDealDirect
PieceSizeArgs  == {0, 2, 4}
EpochPriceArgs == {1, 3, 2^(WordBits - 1), 2^WordBits + 3}
\* DealParam.PieceSize (uint64) and DealParam.StoragePrice (int)
PieceSizes    == {Uint64Of(x) : x \in PieceSizeArgs} \cup {2^(WordBits - 1)}
StoragePrices == {Int64Of(x) : x \in EpochPriceArgs}

\* the size (int64, counted in units of 2^28 bytes like the piece sizes) and
\* duration (int64, epochs) arguments of StorageAsk
AskSizeArgs     == {-1, 0, 5}
AskDurationArgs == {-1, 0, 10}

\* the external calls of sendDealToMiner / StorageAsk that can fail
FailPoints == {"none", "Setup", "DialArgs", "NewFullNodeRPC", "GetWallet",
               "GetAddrInfo", "Connect", "FirstSupportedProtocol",
               "CollateralBounds", "ChainHead", "WalletSign", "NewStream"}

DealParams == [ProviderOk : BOOLEAN, Commp : Cids, PieceSize : PieceSizes,
               CarSize : {0, 1}, PayloadCid : Cids, StartEpoch : StartEpochs,
               StartEpochHeadOffset : HeadOffsets, Duration : DealDurations,
               ProviderCollateral : Collaterals, StoragePrice : StoragePrices]

NoDealP == [ProviderOk |-> FALSE, Commp |-> "none", PieceSize |-> 0, CarSize |-> 0,
            PayloadCid |-> "none", StartEpoch |-> 0, StartEpochHeadOffset |-> 0,
            Duration |-> 0, ProviderCollateral |-> 0, StoragePrice |-> 0]

NoRet  == [uuid |-> "", err |-> "none", msg |-> ""]
NoSd   == [uuid |-> "", err |-> "none"]
\* entry: the exported function the call came through; sd: its result;
\* pieceSize, epochPrice: the arguments of StartDealDirect; protoSupported:
\* whether the peer's protocols include DealProtocolv120; height: the height
\* of the chain head when the call asks for it; askSize, askDuration: the
\* arguments of StorageAsk; info: the *AskInfo it returns, if any
NoDeal == [fn |-> "none", entry |-> "none", pieceSize |-> 0, epochPrice |-> 0,
           dealP |-> NoDealP, protoSupported |-> FALSE, height |-> 0,
           askSize |-> 0, askDuration |-> 0,
           proposal |-> {},
           defers |-> <<>>, rpcErr |-> "none", resp |-> {}, ret |-> NoRet,
           info |-> {}, sd |-> NoSd]

\* what the peer may write back on a deal stream (types.DealResponse)
DealResponses == {[Accepted |-> TRUE, Message |-> ""],
                  [Accepted |-> FALSE, Message |-> "no capacity"]}
\* what the peer may write back on an ask stream (network.AskResponse): a
\* signed ask, a signed-ask wrapper without the ask record (a nil *StorageAsk)
\* or no wrapper at all (a nil *SignedStorageAsk); {} stands for nil.  Price
\* is in attoFIL per epoch per GiB
AskResponses == {[Ask |-> {[Ask |-> {[Price |-> 7, MinPieceSize |-> 1]}]}],
                 [Ask |-> {[Ask |-> {}]}],
                 [Ask |-> {}]}

\* mutant: the piece size is not checked
ValidateInputsNoPieceSize(dealP) ==
    IF ~CidParses(dealP.Commp) THEN "BadPieceCid"
    ELSE IF ~CidParses(dealP.PayloadCid) THEN "BadPayloadCid"
    ELSE IF dealP.CarSize = 0 THEN "ZeroCarSize"
    ELSE "nil"

\* lines 523-543: the checks of the caller's piece id, sizes and root id, in order
ValidateInputs(dealP) ==
    IF ~CidParses(dealP.Commp) THEN "BadPieceCid"
    ELSE IF dealP.PieceSize = 0 THEN "ZeroPieceSize"
    ELSE IF ~CidParses(dealP.PayloadCid) THEN "BadPayloadCid"
    ELSE IF dealP.CarSize = 0 THEN "ZeroCarSize"
    ELSE "nil"

\* mutant: the two flags are not checked against each other
BothStartEpochsUnchecked(dealP) == FALSE

\* line 569: both start-epoch flags given
BothStartEpochs(dealP) ==
    dealP.StartEpoch # 0 /\ dealP.StartEpochHeadOffset # 0

\* mutant: the offset is taken for the absolute epoch
StartEpochOfOffsetIsAbsolute(dealP, height) ==
    IF dealP.StartEpochHeadOffset # 0 THEN dealP.StartEpochHeadOffset
    ELSE IF dealP.StartEpoch # 0 THEN dealP.StartEpoch
    ELSE height + 5760

\* lines 573-582
StartEpochOf(dealP, height) ==
    IF dealP.StartEpochHeadOffset # 0 THEN height + dealP.StartEpochHeadOffset
    ELSE IF dealP.StartEpoch # 0 THEN dealP.StartEpoch
    ELSE height + 5760

\* lines 549-559
CollateralOf(dealP, boundsMin) ==
    IF dealP.ProviderCollateral # 0 THEN dealP.ProviderCollateral
    ELSE (boundsMin * 6) \div 5

\* mutant: the end epoch leaves out the duration
dealProposalEndIsStart(dealP, startEpoch, providerCollateral) ==
    LET storagePrice == Int64Of(dealP.StoragePrice) IN
    [PieceSize |-> dealP.PieceSize, StartEpoch |-> startEpoch,
     EndEpoch |-> startEpoch,
     StoragePricePerEpoch |-> (Int64Of(dealP.PieceSize) * storagePrice) \div GiB,
     ProviderCollateral |-> providerCollateral]

\* dealProposal, lines 631-651, with the arguments of line 585: the epochs,
\* the collateral and the price per epoch of the proposal.  big.Div is the
\* Euclidean division, which for the divisor 1 << 30 is the floor
dealProposal(dealP, startEpoch, providerCollateral) ==
    LET storagePrice == Int64Of(dealP.StoragePrice) IN
    [PieceSize |-> dealP.PieceSize, StartEpoch |-> startEpoch,
     EndEpoch |-> startEpoch + dealP.Duration,
     StoragePricePerEpoch |-> (Int64Of(dealP.PieceSize) * storagePrice) \div GiB,
     ProviderCollateral |-> providerCollateral]

\* mutant: the answer of the protocol lookup is not looked at
ProtocolUnsupportedUnchecked(protoSupported) == FALSE

\* line 517: len(x) == 0, the peer supports none of the protocols asked for
ProtocolUnsupported(protoSupported) == ~protoSupported

\* sendDealToMiner, lines 468-606: everything up to the call of doRpc.  failAt
\* names the first external call that fails; the code returns at that call.
\* effects: the external calls made, in order; defers: what runs on return.
SendDealPrefix(dealP, failAt, protoSupported, height, boundsMin) ==
    LET e1 == <<"Setup">>
        e2 == e1 \o <<"NewFullNodeRPC">>
        e3 == e2 \o <<"GetWallet">>
        e4 == e3 \o <<"GetAddrInfo">>
        e5 == e4 \o <<"Connect">>
        e6 == e5 \o <<"FirstSupportedProtocol">>
        e7 == IF dealP.ProviderCollateral = 0 THEN e6 \o <<"CollateralBounds">> ELSE e6
        e8 == e7 \o <<"ChainHead">>
        e9 == e8 \o <<"WalletSign">>
        e10 == e9 \o <<"NewStream">>
        d1 == <<"HostClose">>
        d2 == <<"CloserClose", "HostClose">>
        d3 == <<"StreamClose", "CloserClose", "HostClose">>
        R(err, eff, defers) ==
            [err |-> err, effects |-> eff, defers |-> defers, proposal |-> {}]
    IN
    IF failAt = "Setup" THEN R("SetupError", e1, <<>>)
    ELSE IF failAt = "DialArgs" THEN R("DialArgsError", e1, d1)
    ELSE IF failAt = "NewFullNodeRPC" THEN R("FullNodeError", e2, d1)
    ELSE IF failAt = "GetWallet" THEN R("WalletError", e3, d2)
    ELSE IF ~dealP.ProviderOk THEN R("BadProviderAddress", e3, d2)
    ELSE IF failAt = "GetAddrInfo" THEN R("AddrInfoError", e4, d2)
    ELSE IF failAt = "Connect" THEN R("ConnectError", e5, d2)
    ELSE IF failAt = "FirstSupportedProtocol" THEN R("ProtocolLookupError", e6, d2)
    ELSE IF ProtocolUnsupported(protoSupported) THEN R("ProtocolUnsupported", e6, d2)
    ELSE IF ValidateInputs(dealP) # "nil" THEN R(ValidateInputs(dealP), e6, d2)
    ELSE IF dealP.ProviderCollateral = 0 /\ failAt = "CollateralBounds"
         THEN R("CollateralBoundsError", e7, d2)
    ELSE IF failAt = "ChainHead" THEN R("ChainHeadError", e8, d2)
    ELSE IF BothStartEpochs(dealP) THEN R("BothStartEpochs", e8, d2)
    ELSE IF failAt = "WalletSign" THEN R("ProposalError", e9, d2)
    ELSE IF failAt = "NewStream" THEN R("NewStreamError", e10, d2)
    ELSE [err |-> "nil", effects |-> e10, defers |-> d3,
          proposal |-> {dealProposal(dealP, StartEpochOf(dealP, height),
                                     CollateralOf(dealP, boundsMin))}]

\* StorageAsk, lines 709-748: everything up to the call of doRpc
StorageAskPrefix(providerOk, failAt) ==
    LET e1 == <<"Setup">>
        e2 == e1 \o <<"NewFullNodeRPC">>
        e4 == e2 \o <<"GetAddrInfo">>
        e5 == e4 \o <<"Connect">>
        e10 == e5 \o <<"NewStream">>
        d1 == <<"HostClose">>
        d2 == <<"CloserClose", "HostClose">>
        d3 == <<"StreamClose", "CloserClose", "HostClose">>
        R(err, eff, defers) == [err |-> err, effects |-> eff, defers |-> defers]
    IN
    IF failAt = "Setup" THEN R("SetupError", e1, <<>>)
    ELSE IF failAt = "DialArgs" THEN R("DialArgsError", e1, d1)
    ELSE IF failAt = "NewFullNodeRPC" THEN R("FullNodeError", e2, d1)
    ELSE IF ~providerOk THEN R("BadProviderAddress", e2, d2)
    ELSE IF failAt = "GetAddrInfo" THEN R("AddrInfoError", e4, d2)
    ELSE IF failAt = "Connect" THEN R("ConnectError", e5, d2)
    ELSE IF failAt = "NewStream" THEN R("NewStreamError", e10, d2)
    ELSE R("nil", e10, d3)

SilentPeer == [state |-> "silent", resp |-> {}]
NoCtx      == [kind |-> "Background", done |-> FALSE]

\* the caller's deferred s.Close() has run
StreamClosed == \E i \in 1..Len(effects) : effects[i] = "StreamClose"

\* StartDealDirect, lines 460-465: what it returns for sendDealToMiner's result
StartDealDirectResult(ret) ==
    IF ret.err # "nil" THEN [uuid |-> "", err |-> ret.err]
    ELSE [uuid |-> ret.uuid, err |-> "nil"]

\* StartDealDirect, lines 426-442: the confirmation prompt.  "go": the deal is
\* submitted; otherwise the result returned without submitting
Confirmation(skipConfirmation, answer) ==
    IF skipConfirmation THEN "go"
    ELSE IF answer = "read error" THEN "stdin error"
    ELSE IF answer \notin {"Y", "y"} THEN "nil"       \* line 440: err is nil here
    ELSE "go"

\* sendDealToMiner up to doRpc, entered directly or through StartDealDirect:
\* an early return, or the goroutine of doRpc is spawned and the caller waits
\* in the select; ctx is context.Background()
SendDealEnter(entry, pieceSize, epochPrice, dealP, failAt, protoSupported, height, boundsMin) ==
    LET r   == SendDealPrefix(dealP, failAt, protoSupported, height, boundsMin)
        ret == IF r.err = "nil" THEN NoRet
               ELSE [uuid |-> "", err |-> r.err, msg |-> ""]
    IN
    /\ deal' = [NoDeal EXCEPT !.fn = "sendDealToMiner", !.entry = entry,
                  !.pieceSize = pieceSize, !.epochPrice = epochPrice,
                  !.dealP = dealP, !.protoSupported = protoSupported,
                  !.height = height, !.proposal = r.proposal, !.defers = r.defers,
                  !.ret = ret,
                  !.sd = IF r.err # "nil" /\ entry = "StartDealDirect"
                         THEN StartDealDirectResult(ret) ELSE NoSd]
    /\ effects' = IF r.err = "nil" THEN r.effects ELSE r.effects \o r.defers
    /\ dpc' = IF r.err = "nil" THEN "rpc" ELSE "done"
    /\ io' = IF r.err = "nil" THEN "write" ELSE "none"
    /\ ctx' = NoCtx
    /\ errc' = "empty"
    /\ peer' = SilentPeer

\* a call of sendDealToMiner with any DealParam
SendDealBegin ==
    /\ dpc = "idle"
    /\ \E dealP \in DealParams, failAt \in FailPoints, protoSupported \in BOOLEAN,
          height \in Heights, boundsMin \in BoundsMins :
         SendDealEnter("sendDealToMiner", 0, 0, dealP, failAt, protoSupported,
                       height, boundsMin)
    /\ UNCHANGED <<askVars, valVars>>

\* a call of StartDealDirect, lines 425-466: the prompt, then sendDealToMiner
\* with the DealParam of lines 446-458, which converts pieceSize and
\* epochPrice and leaves StartEpochHeadOffset and ProviderCollateral zero
StartDealDirectBegin ==
    /\ dpc = "idle"
    /\ \E skipConfirmation \in BOOLEAN, answer \in {"Y", "y", "n", "read error"},
          pieceSize \in PieceSizeArgs, epochPrice \in EpochPriceArgs,
          dealP \in DealParams, failAt \in FailPoints, protoSupported \in BOOLEAN,
          height \in Heights, boundsMin \in BoundsMins :
         /\ dealP.PieceSize = Uint64Of(pieceSize)
         /\ dealP.StoragePrice = Int64Of(epochPrice)
         /\ dealP.StartEpochHeadOffset = 0 /\ dealP.ProviderCollateral = 0
         /\ LET c == Confirmation(skipConfirmation, answer) IN
            IF c # "go"
            THEN /\ deal' = [NoDeal EXCEPT !.fn = "StartDealDirect",
                               !.entry = "StartDealDirect",
                               !.pieceSize = pieceSize, !.epochPrice = epochPrice,
                               !.dealP = dealP,
                               !.sd = [uuid |-> "", err |-> c]]
                 /\ dpc' = "done"
                 /\ UNCHANGED <<effects, io, errc, ctx, peer>>
            ELSE SendDealEnter("StartDealDirect", pieceSize, epochPrice, dealP,
                               failAt, protoSupported, height, boundsMin)
    /\ UNCHANGED <<askVars, valVars>>

\* StorageAsk up to doRpc; ctx is context.Background()
StorageAskBegin ==
    /\ dpc = "idle"
    /\ \E providerOk \in BOOLEAN, failAt \in FailPoints,
          size \in AskSizeArgs, duration \in AskDurationArgs :
         LET r == StorageAskPrefix(providerOk, failAt) IN
         /\ deal' = [NoDeal EXCEPT !.fn = "StorageAsk",
                       !.dealP = [NoDealP EXCEPT !.ProviderOk = providerOk],
                       !.askSize = size, !.askDuration = duration,
                       !.defers = r.defers,
                       !.ret = IF r.err = "nil" THEN NoRet
                               ELSE [uuid |-> "", err |-> r.err, msg |-> ""]]
         /\ effects' = IF r.err = "nil" THEN r.effects ELSE r.effects \o r.defers
         /\ dpc' = IF r.err = "nil" THEN "rpc" ELSE "done"
         /\ io' = IF r.err = "nil" THEN "write" ELSE "none"
    /\ ctx' = NoCtx
    /\ errc' = "empty"
    /\ peer' = SilentPeer
    /\ UNCHANGED <<askVars, valVars>>

\* doRpc called on an open stream with a context of either kind, which may
\* already be cancelled
DoRpcBegin ==
    /\ dpc = "idle"
    /\ \E kind \in {"Background", "WithCancel"}, done \in BOOLEAN, req \in {"deal", "ask"} :
         /\ (kind = "Background") => ~done
         /\ ctx' = [kind |-> kind, done |-> done]
         /\ deal' = [NoDeal EXCEPT !.fn = "doRpc", !.defers = <<"StreamClose">>,
                       !.ret = [NoRet EXCEPT !.msg = req]]
    /\ effects' = <<"NewStream">>
    /\ dpc' = "rpc"
    /\ io' = "write"
    /\ errc' = "empty"
    /\ peer' = SilentPeer
    /\ UNCHANGED <<askVars, valVars>>

\* mutant: no return after a failed write, the goroutine goes on to read
RpcWriteNoReturn ==
    /\ io = "write"
    /\ \E ok \in BOOLEAN :
         /\ StreamClosed => ~ok
         /\ io' = "read"
         /\ errc' = IF ok THEN errc ELSE "failed to send request"
    /\ effects' = effects \o <<"Write">>
    /\ UNCHANGED <<dpc, deal, ctx, peer, askVars, valVars>>

\* doRpc goroutine, lines 672-675: cborutil.WriteCborRPC(s, req)
RpcWrite ==
    /\ io = "write"
    /\ \E ok \in BOOLEAN :
         /\ StreamClosed => ~ok
         /\ io' = IF ok THEN "read" ELSE "send"
         /\ errc' = IF ok THEN errc ELSE "failed to send request"
    /\ effects' = effects \o <<"Write">>
    /\ UNCHANGED <<dpc, deal, ctx, peer, askVars, valVars>>

\* the remote peer answers the request it received, or resets the stream
PeerRespond ==
    /\ io = "read"
    /\ peer.state = "silent"
    /\ \/ \E r \in DealResponses :
            /\ deal.fn = "sendDealToMiner" \/ (deal.fn = "doRpc" /\ deal.ret.msg = "deal")
            /\ peer' = [state |-> "responded", resp |-> {r}]
       \/ \E r \in AskResponses :
            /\ deal.fn = "StorageAsk" \/ (deal.fn = "doRpc" /\ deal.ret.msg = "ask")
            /\ peer' = [state |-> "responded", resp |-> {r}]
       \/ peer' = [state |-> "reset", resp |-> {}]
    /\ UNCHANGED <<dpc, deal, effects, io, errc, ctx, askVars, valVars>>

\* doRpc goroutine, lines 677-682: cborutil.ReadCborRPC(s, resp) blocks until
\* the peer has written, the stream was reset or the stream was closed
RpcRead ==
    /\ io = "read"
    /\ peer.state # "silent" \/ StreamClosed
    /\ IF peer.state = "responded" /\ ~StreamClosed
       THEN /\ deal' = [deal EXCEPT !.resp = peer.resp]
            /\ errc' = "nil"
       ELSE /\ deal' = deal
            /\ errc' = "failed to read response"
    /\ io' = "send"
    /\ effects' = effects \o <<"Read">>
    /\ UNCHANGED <<dpc, ctx, peer, askVars, valVars>>

\* the cancellation signal of a cancellable context fires
CtxCancel ==
    /\ dpc = "rpc"
    /\ ctx.kind = "WithCancel"
    /\ ~ctx.done
    /\ ctx' = [ctx EXCEPT !.done = TRUE]
    /\ UNCHANGED <<dpc, deal, effects, io, errc, peer, askVars, valVars>>

\* lines 685-690: the cases of the select that can proceed: a receive from
\* errc when the goroutine is blocked sending, <-ctx.Done() when it is closed
SelectReady ==
    (IF io = "send" THEN {"errc"} ELSE {}) \cup (IF ctx.done THEN {"done"} ELSE {})

\* mutant: the Done case returns nil instead of ctx.Err()
SelectResultDropsCancel(case) ==
    IF case = "errc" THEN errc ELSE "nil"

\* lines 686-689: what doRpc returns for the case the select took
SelectResult(case) ==
    IF case = "errc" THEN errc ELSE "context canceled"

\* doRpc, lines 685-690: the select takes one of the ready cases
RpcSelect ==
    /\ dpc = "rpc"
    /\ \E case \in SelectReady :
         /\ deal' = [deal EXCEPT !.rpcErr = SelectResult(case)]
         /\ io' = IF case = "errc" THEN "exited" ELSE io
         /\ errc' = IF case = "errc" THEN "empty" ELSE errc
    /\ dpc' = "rpcReturned"
    /\ UNCHANGED <<effects, ctx, peer, askVars, valVars>>

\* mutant: resp.Accepted is not looked at
DealResultIgnoresAccepted(resp) ==
    [uuid |-> "uuid", err |-> "nil", msg |-> ""]

\* lines 613-628: the result of sendDealToMiner for the response read
DealResult(resp) ==
    IF ~resp.Accepted
    THEN [uuid |-> "", err |-> "deal proposal rejected", msg |-> resp.Message]
    ELSE [uuid |-> "uuid", err |-> "nil", msg |-> ""]

\* mutant: the deferred closes do not run on the return after doRpc
SendDealFinishSkipsDefers ==
    /\ dpc = "rpcReturned"
    /\ deal.fn = "sendDealToMiner"
    /\ LET ret == IF deal.rpcErr # "nil"
                  THEN [uuid |-> "", err |-> "send proposal rpc", msg |-> deal.rpcErr]
                  ELSE DealResult(Only(deal.resp))
       IN  deal' = [deal EXCEPT !.ret = ret,
                      !.sd = IF deal.entry = "StartDealDirect"
                             THEN StartDealDirectResult(ret) ELSE NoSd]
    /\ effects' = effects
    /\ dpc' = "done"
    /\ UNCHANGED <<io, errc, ctx, peer, askVars, valVars>>

\* sendDealToMiner, lines 609-629, and its deferred closes
SendDealFinish ==
    /\ dpc = "rpcReturned"
    /\ deal.fn = "sendDealToMiner"
    /\ LET ret == IF deal.rpcErr # "nil"
                  THEN [uuid |-> "", err |-> "send proposal rpc", msg |-> deal.rpcErr]
                  ELSE DealResult(Only(deal.resp))
       IN  deal' = [deal EXCEPT !.ret = ret,
                      !.sd = IF deal.entry = "StartDealDirect"
                             THEN StartDealDirectResult(ret) ELSE NoSd]
    /\ effects' = effects \o deal.defers
    /\ dpc' = "done"
    /\ UNCHANGED <<io, errc, ctx, peer, askVars, valVars>>

\* StorageAsk, lines 767-783: the AskInfo built from the ask and the size and
\* duration arguments.  {} is a price that was not set (the zero big.Int);
\* chaintypes.NewInt(uint64(x)) is the conversion of lines 773 and 780, and
\* BigDiv, the Euclidean division, is the floor for the divisor 1 << 30
AskInfoOf(ask, size, duration) ==
    LET perEpoch == (ask.Price * Uint64Of(size)) \div GiB IN
    [StorageAsk |-> ask,
     EpochPrice |-> IF size = 0 THEN {} ELSE {perEpoch},
     TotalPrice |-> IF size = 0 \/ duration = 0 THEN {}
                    ELSE {perEpoch * Uint64Of(duration)}]

\* StorageAsk, lines 756-784, and its deferred closes: resp.Ask.Ask (line 760)
\* on a nil resp.Ask, and ask.Price (line 763) on a nil ask, are nil pointer
\* dereferences: the goroutine panics, the deferred closes run, nothing is
\* returned
StorageAskFinish ==
    /\ dpc = "rpcReturned"
    /\ deal.fn = "StorageAsk"
    /\ IF deal.rpcErr # "nil"
       THEN /\ deal' = [deal EXCEPT !.ret =
                          [uuid |-> "", err |-> "send ask request rpc", msg |-> deal.rpcErr]]
            /\ dpc' = "done"
       ELSE IF Only(deal.resp).Ask = {} \/ Only(Only(deal.resp).Ask).Ask = {}
       THEN /\ deal' = deal
            /\ dpc' = "panicked"
       ELSE /\ deal' = [deal EXCEPT
                          !.ret = [uuid |-> "askinfo", err |-> "nil", msg |-> ""],
                          !.info = {AskInfoOf(Only(Only(Only(deal.resp).Ask).Ask),
                                              deal.askSize, deal.askDuration)}]
            /\ dpc' = "done"
    /\ effects' = effects \o deal.defers
    /\ UNCHANGED <<io, errc, ctx, peer, askVars, valVars>>

\* the caller of doRpc takes its result and closes the stream
DoRpcFinish ==
    /\ dpc = "rpcReturned"
    /\ deal.fn = "doRpc"
    /\ deal' = [deal EXCEPT !.ret.err = deal.rpcErr]
    /\ effects' = effects \o deal.defers
    /\ dpc' = "done"
    /\ UNCHANGED <<io, errc, ctx, peer, askVars, valVars>>

\* the call is over; the model follows the next call
DealReturn ==
    /\ dpc \in {"done", "panicked"}
    /\ dpc' = "idle"
    /\ deal' = NoDeal
    /\ effects' = <<>>
    /\ io' = "none"
    /\ errc' = "empty"
    /\ ctx' = NoCtx
    /\ peer' = SilentPeer
    /\ UNCHANGED <<askVars, valVars>>

InitDealVars ==
    /\ dpc = "idle"
    /\ deal = NoDeal
    /\ effects = <<>>
    /\ io = "none"
    /\ errc = "empty"
    /\ ctx = NoCtx
    /\ peer = SilentPeer

(***************************************************************************)
(*   client/client.go : ValidateDealConfig and CheckDealWithMinerConfig    *)
(***************************************************************************)
MaxFileSize == 5                \* DealConfig.FileSize ranges over 0..MaxFileSize

\* *lotus.MinerConfig values a source may return.  Prices are in attoFIL.
BoostConfigs == {[Price |-> 300, VerifiedPrice |-> 150, MinPieceSize |-> 2, MaxPieceSize |-> 4]}
LotusConfigs == {[Price |-> 520, VerifiedPrice |-> 249, MinPieceSize |-> 1, MaxPieceSize |-> 3]}

\* a QueryAsk call returns a config and a nil error, or nil and an error
QueryOutcomes(src) ==
    {[cfg |-> {}, err |-> src \o " query failed"]} \cup
    {[cfg |-> {c}, err |-> "nil"] : c \in (IF src = "boost" THEN BoostConfigs ELSE LotusConfigs)}

\* model.DealConfig values; MaxPrice, a decimal number of FIL, is counted in
\* attoFIL (10^-18 FIL)
DealConfigs == [SenderWallet : {"", "f1wallet"}, FileSize : 0..MaxFileSize,
                VerifiedDeal : BOOLEAN, MaxPrice : {0, 150, 200, 500},
                Duration : {0, 600000}]

\* the variadic boostFirst ...bool
BoostFirstArgs == {<<>>, <<TRUE>>, <<FALSE>>}

\* constants.DURATION_DEFAULT
DURATION_DEFAULT == 2880 * 180

\* decimal.Div(e18): the quotient by 10^18 rounded half up to 16 decimal
\* places (decimal.DivisionPrecision), i.e. to a multiple of 10^-16 FIL; the
\* result is counted in attoFIL like MaxPrice
DivE18(attoFil) == ((attoFil + 50) \div 100) * 100

\* mutant: the lower bound is excluded
OutOfRangeOffByOne(fileSize, minerConfig) ==
    fileSize <= minerConfig.MinPieceSize \/ fileSize > minerConfig.MaxPieceSize

\* line 880: the bounds check
OutOfRange(fileSize, minerConfig) ==
    fileSize < minerConfig.MinPieceSize \/ fileSize > minerConfig.MaxPieceSize

\* CheckDealWithMinerConfig, lines 879-911; dealConfig in the result is the
\* caller's DealConfig as the call leaves it
CheckDealWithMinerConfig(dealConfig, minerConfig, durationOk) ==
    IF OutOfRange(dealConfig.FileSize, minerConfig)
    THEN [minerPrice |-> {}, err |-> "OutOfRange", dealConfig |-> dealConfig]
    ELSE LET minerPrice == IF dealConfig.VerifiedDeal
                           THEN DivE18(minerConfig.VerifiedPrice)
                           ELSE DivE18(minerConfig.Price)
         IN  IF dealConfig.MaxPrice < minerPrice
             THEN [minerPrice |-> {}, err |-> "PriceExceeded", dealConfig |-> dealConfig]
             ELSE LET cfg2 == IF dealConfig.Duration = 0
                              THEN [dealConfig EXCEPT !.Duration = DURATION_DEFAULT]
                              ELSE dealConfig
                  IN  IF ~durationOk
                      THEN [minerPrice |-> {}, err |-> "CheckDuration failed", dealConfig |-> cfg2]
                      ELSE [minerPrice |-> {minerPrice}, err |-> "nil", dealConfig |-> cfg2]

\* lines 842-847: whether the boost (direct-provider) source is queried first
BoostIsFirst(boostFirst) == Len(boostFirst) > 0 /\ boostFirst[1]

\* mutant: the flag is not flipped when the fallback is queried
FlipIsBoostMissing(isBoost) == isBoost

\* line 851: isBoost = !isBoost
FlipIsBoost(isBoost) == ~isBoost

\* mutant: the first failure is returned
BothFailedErrFirst(firstErr, lastErr) == firstErr

\* lines 852-856: the error returned when the second query fails too
BothFailedErr(firstErr, lastErr) == lastErr

\* ValidateDealConfig, lines 827-862.  dealConfig is a set: {} is a nil pointer.
\* queried: the sources queried, in order; source: the one whose ask was checked
ValidateDealConfig(dealConfig, boostFirst, boostRes, lotusRes, durationOk) ==
    LET none(err, isBoost, queried) ==
            [minerPrice |-> {}, isBoost |-> isBoost, err |-> err, queried |-> queried,
             source |-> "none", dealConfig |-> dealConfig]
        check(cfg, minerConfig, isBoost, queried) ==
            LET r == CheckDealWithMinerConfig(cfg, minerConfig, durationOk) IN
            [minerPrice |-> r.minerPrice, isBoost |-> isBoost, err |-> r.err,
             queried |-> queried, source |-> queried[Len(queried)],
             dealConfig |-> {r.dealConfig}]
    IN
    IF dealConfig = {} THEN none("parameter dealConfig is nil", FALSE, <<>>)
    ELSE LET cfg == Only(dealConfig) IN
    IF cfg.SenderWallet = "" THEN none("wallet should be set", FALSE, <<>>)
    ELSE LET bf     == BoostIsFirst(boostFirst)
             first  == IF bf THEN "boost" ELSE "lotus"
             last   == IF bf THEN "lotus" ELSE "boost"
             res(s) == IF s = "boost" THEN boostRes ELSE lotusRes
         IN  IF res(first).err = "nil"
             THEN check(cfg, Only(res(first).cfg), bf, <<first>>)
             ELSE IF res(last).err # "nil"
             THEN none(BothFailedErr(res(first).err, res(last).err),
                       FlipIsBoost(bf), <<first, last>>)
             ELSE check(cfg, Only(res(last).cfg), FlipIsBoost(bf), <<first, last>>)

NoVal == [dealConfig |-> {}, boostFirst |-> <<>>,
          boostRes |-> [cfg |-> {}, err |-> "none"],
          lotusRes |-> [cfg |-> {}, err |-> "none"],
          out |-> [minerPrice |-> {}, isBoost |-> FALSE, err |-> "none",
                   queried |-> <<>>, source |-> "none", dealConfig |-> {}]]

\* the variadic lotusFirst ...bool of CheckDealConfig
LotusFirstArgs == {<<>>, <<TRUE>>, <<FALSE>>}

\* what CheckDealConfigByBoost (lines 816-825) and CheckDealConfigByLotus
\* (lines 804-814) may return: a piece size and an epoch price with a nil
\* error, or an error; on an error the named results are returned as they
\* are, the piece size of the boost check being computed before the failure
CheckOutcomes(src) ==
    IF src = "boost"
    THEN {[pieceSize |-> 2, epochPrice |-> 10, err |-> "nil"],
          [pieceSize |-> 2, epochPrice |-> 0, err |-> "boost check failed"]}
    ELSE {[pieceSize |-> 1, epochPrice |-> 20, err |-> "nil"],
          [pieceSize |-> 0, epochPrice |-> 0, err |-> "lotus check failed"]}

\* line 794: whether the on-chain (lotus) check is tried first
LotusIsFirst(lotusFirst) == Len(lotusFirst) > 0

\* CheckDealConfig, lines 792-802.  tried: the checks called, in order
CheckDealConfig(lotusFirst, boostOut, lotusOut) ==
    LET lf     == LotusIsFirst(lotusFirst)
        first  == IF lf THEN "lotus" ELSE "boost"
        last   == IF lf THEN "boost" ELSE "lotus"
        res(c) == IF c = "boost" THEN boostOut ELSE lotusOut
    IN  IF res(first).err = "nil"
        THEN [tried |-> <<first>>, pieceSize |-> res(first).pieceSize,
              epochPrice |-> res(first).epochPrice, err |-> "nil"]
        ELSE [tried |-> <<first, last>>, pieceSize |-> res(last).pieceSize,
              epochPrice |-> res(last).epochPrice, err |-> res(last).err]

NoChk == [pc |-> "idle", lotusFirst |-> <<>>,
          boostOut |-> [pieceSize |-> 0, epochPrice |-> 0, err |-> "none"],
          lotusOut |-> [pieceSize |-> 0, epochPrice |-> 0, err |-> "none"],
          out |-> [tried |-> <<>>, pieceSize |-> 0, epochPrice |-> 0, err |-> "none"]]

\* one call of CheckDealConfig
CheckConfig ==
    /\ chk.pc = "idle" /\ vpc = "idle"
    /\ \E lfa \in LotusFirstArgs, boostOut \in CheckOutcomes("boost"),
          lotusOut \in CheckOutcomes("lotus") :
         chk' = [pc |-> "done", lotusFirst |-> lfa, boostOut |-> boostOut,
                 lotusOut |-> lotusOut,
                 out |-> CheckDealConfig(lfa, boostOut, lotusOut)]
    /\ UNCHANGED <<vpc, val, askVars, dealVars>>

\* the caller takes the result
CheckConfigReturn ==
    /\ chk.pc = "done"
    /\ chk' = NoChk
    /\ UNCHANGED <<vpc, val, askVars, dealVars>>

\* one call of ValidateDealConfig
Validate ==
    /\ vpc = "idle" /\ chk.pc = "idle"
    /\ \E dc \in {{}} \cup {{c} : c \in DealConfigs}, bfa \in BoostFirstArgs,
          boostRes \in QueryOutcomes("boost"), lotusRes \in QueryOutcomes("lotus"),
          durationOk \in BOOLEAN :
         val' = [dealConfig |-> dc, boostFirst |-> bfa, boostRes |-> boostRes,
                 lotusRes |-> lotusRes,
                 out |-> ValidateDealConfig(dc, bfa, boostRes, lotusRes, durationOk)]
    /\ vpc' = "done"
    /\ UNCHANGED <<chk, askVars, dealVars>>

\* the caller takes the result
ValidateReturn ==
    /\ vpc = "done"
    /\ vpc' = "idle"
    /\ val' = NoVal
    /\ UNCHANGED <<chk, askVars, dealVars>>

InitValVars ==
    /\ vpc = "idle"
    /\ val = NoVal
    /\ chk = NoChk

(***************************************************************************)
(*                           The specifications                            *)
(***************************************************************************)
Init == InitAskVars /\ InitDealVars /\ InitValVars

\* SetAsk calls of one store, one after another
Serial(p) == \A q \in Callers \ {p} : pc[q] = "idle"

NextAsk ==
    \/ \E p \in Callers : Serial(p) /\ SetAskLoad(p)
    \/ \E p \in Callers : SetAskBuild(p)
    \/ \E p \in Callers : SetAskSign(p)
    \/ \E p \in Callers : SetAskStore(p)
    \/ \E p \in Callers : SetAskReturn(p)
    \/ ChainAdvance

\* SetAsk calls that overlap: the code takes no lock, so a call may start
\* while another is between its load and its persist (the chain head stays
\* where it is meanwhile)
NextAskConc ==
    \/ \E p \in Callers : SetAskLoad(p)
    \/ \E p \in Callers : SetAskBuild(p)
    \/ \E p \in Callers : SetAskSign(p)
    \/ \E p \in Callers : SetAskStore(p)
    \/ \E p \in Callers : SetAskReturn(p)

\* MarketSetAsk requests of one provider, one after another (the chain head
\* stays where it is meanwhile)
NextMarket ==
    \/ \E p \in Callers : Serial(p) /\ MarketSetAsk(p)
    \/ \E p \in Callers : SetAskBuild(p)
    \/ \E p \in Callers : SetAskSign(p)
    \/ \E p \in Callers : SetAskStore(p)
    \/ \E p \in Callers : SetAskReturn(p)

RpcSteps == RpcWrite \/ PeerRespond \/ RpcRead \/ RpcSelect

NextDeal ==
    \/ SendDealBegin
    \/ StartDealDirectBegin
    \/ StorageAskBegin
    \/ RpcSteps
    \/ SendDealFinish
    \/ StorageAskFinish
    \/ DealReturn

NextRpc ==
    \/ DoRpcBegin
    \/ RpcSteps
    \/ CtxCancel
    \/ DoRpcFinish
    \/ DealReturn

NextValidate ==
    \/ Validate
    \/ ValidateReturn
    \/ CheckConfig
    \/ CheckConfigReturn

SpecAsk      == Init /\ [][NextAsk]_vars
SpecAskConc  == Init /\ [][NextAskConc]_vars
SpecMarket   == Init /\ [][NextMarket]_vars
SpecDeal     == Init /\ [][NextDeal]_vars
\* the Go scheduler runs every goroutine that can take a step; the remote peer
\* is under no obligation to answer
SpecDealFair == /\ Init /\ [][NextDeal]_vars
                /\ WF_vars(RpcWrite) /\ WF_vars(RpcRead) /\ WF_vars(RpcSelect)
                /\ WF_vars(SendDealFinish) /\ WF_vars(StorageAskFinish)
SpecRpc      == Init /\ [][NextRpc]_vars
\* the same scheduler for doRpc alone: the goroutine and the caller take every
\* step they can take; the peer need not answer, the context need not be
\* cancelled
SpecRpcFair  == /\ Init /\ [][NextRpc]_vars
                /\ WF_vars(RpcWrite) /\ WF_vars(RpcRead) /\ WF_vars(RpcSelect)
                /\ WF_vars(DoRpcFinish)
SpecValidate == Init /\ [][NextValidate]_vars

(***************************************************************************)
(*                               The claims                                *)
(***************************************************************************)
\* C1: for one provider, the persisted sequence number is 0 after the first
\* SetAsk call that succeeds and the previously persisted number plus 1 after
\* every later one, i.e. after n successful calls it is n - 1; it never
\* resets or skips, also when calls fail or signing fails in between.
C1_SeqNoCountsSuccesses ==
    \A m \in Miners :
        succ[m] > 0 => /\ db[m] # {}
                       /\ \A a \in db[m] : a.SeqNo = succ[m] - 1

\* ---- sendDealToMiner / doRpc ----
Performed(op) == \E i \in 1..Len(effects) : effects[i] = op

SendDealDone == dpc = "done" /\ deal.fn = "sendDealToMiner"

\* C2: a round trip of sendDealToMiner or StorageAsk always eventually
\* returns, even if the peer never writes a response.
C2_RoundTripReturns == (dpc = "rpc") ~> (dpc # "rpc")

\* the provider's response was read and it says accepted == false
RejectionRead ==
    /\ SendDealDone
    /\ deal.rpcErr = "nil"
    /\ \E r \in deal.resp : ~r.Accepted

\* C3 (as claimed): a response with accepted == false is not reported as an
\* error by sendDealToMiner / StartDealDirect.
C3_RejectionIsNoError ==
    RejectionRead =>
        /\ deal.ret.err = "nil"
        /\ deal.entry = "StartDealDirect" => deal.sd.err = "nil"

\* C3 (amended): a response with accepted == false makes sendDealToMiner return
\* an empty deal id and the error "deal proposal rejected" carrying the
\* provider's reason, and StartDealDirect returns that error with an empty id.
C3_RejectionIsAnError ==
    RejectionRead =>
        /\ deal.ret.uuid = "" /\ deal.ret.err = "deal proposal rejected"
        /\ \A r \in deal.resp : deal.ret.msg = r.Message
        /\ deal.entry = "StartDealDirect" =>
              deal.sd = [uuid |-> "", err |-> "deal proposal rejected"]

C3_Witness == RejectionRead /\ deal.entry = "StartDealDirect"

ValidationErrors == {"BadPieceCid", "ZeroPieceSize", "BadPayloadCid", "ZeroCarSize"}

\* a zero piece size, a zero car size, or a piece / root id that does not parse
InvalidInput(dealP) ==
    \/ dealP.PieceSize = 0 \/ dealP.CarSize = 0
    \/ dealP.Commp \notin ValidCids \/ dealP.PayloadCid \notin ValidCids

\* C4 (as claimed): when sendDealToMiner returns the validation error for a
\* zero size or an unparsable id, no provider address resolution, peer
\* connect, protocol lookup or chain query has been performed.
C4_ValidationBeforeNetwork ==
    (SendDealDone /\ deal.ret.err \in ValidationErrors) =>
        /\ ~Performed("GetAddrInfo") /\ ~Performed("Connect")
        /\ ~Performed("FirstSupportedProtocol")
        /\ ~Performed("CollateralBounds") /\ ~Performed("ChainHead")

\* C4 (amended): with a zero size or an unparsable id sendDealToMiner fails;
\* it makes no collateral-bounds or chain-head query, signs no proposal and
\* opens no stream; the error is the validation error exactly when the node
\* setup, wallet lookup, provider address resolution, peer connect and
\* protocol lookup, which come first, have succeeded and the peer supports
\* the protocol, and otherwise the error of that earlier step.
C4_ValidationBeforeProposal ==
    (SendDealDone /\ InvalidInput(deal.dealP)) =>
        /\ deal.ret.err # "nil" /\ deal.ret.uuid = ""
        /\ ~Performed("CollateralBounds") /\ ~Performed("ChainHead")
        /\ ~Performed("WalletSign") /\ ~Performed("NewStream")
        /\ ~Performed("Write")
        /\ deal.proposal = {}
        /\ deal.ret.err \in ValidationErrors <=>
              (Performed("FirstSupportedProtocol") /\
               deal.ret.err \notin {"ProtocolLookupError", "ProtocolUnsupported"})
        /\ deal.ret.err \in ValidationErrors =>
              Performed("GetAddrInfo") /\ Performed("Connect")

C4_Witness ==
    /\ SendDealDone /\ InvalidInput(deal.dealP)
    /\ deal.ret.err = "ZeroPieceSize" /\ Performed("Connect")

\* both StartEpoch and StartEpochHeadOffset are nonzero
BothGiven(dealP) == dealP.StartEpoch # 0 /\ dealP.StartEpochHeadOffset # 0

SelectStep == dpc = "rpc" /\ dpc' = "rpcReturned"

ValidateDone == vpc = "done"
\* the call got past the nil and wallet checks
Queried == ValidateDone /\ val.out.queried # <<>>
Primary  == IF val.boostFirst = <<TRUE>> THEN "boost" ELSE "lotus"
Fallback == IF val.boostFirst = <<TRUE>> THEN "lotus" ELSE "boost"
ResultOf(src) == IF src = "boost" THEN val.boostRes ELSE val.lotusRes

\* C7: the primary source is queried first, the fallback if and only if the
\* primary query fails, and when both fail the fallback's failure is returned
\* and no bounds, price or duration check is made.
C7_PrimaryThenFallback ==
    ValidateDone =>
        /\ (val.dealConfig # {} /\ \A c \in val.dealConfig : c.SenderWallet # "")
              <=> val.out.queried # <<>>
        /\ val.out.queried # <<>> =>
              /\ val.out.queried[1] = Primary
              /\ Len(val.out.queried) = 2 <=> ResultOf(Primary).err # "nil"
              /\ Len(val.out.queried) = 2 => val.out.queried[2] = Fallback
              /\ Len(val.out.queried) \in {1, 2}
              /\ (ResultOf(Primary).err # "nil" /\ ResultOf(Fallback).err # "nil") =>
                    /\ val.out.err = ResultOf(Fallback).err
                    /\ val.out.source = "none"
                    /\ val.out.minerPrice = {}
                    /\ val.out.dealConfig = val.dealConfig

C7_Witness ==
    /\ Queried
    /\ ResultOf(Primary).err # "nil" /\ ResultOf(Fallback).err # "nil"
    /\ val.out.queried = <<"boost", "lotus">>

\* the price the request selects from a config, divided by 10^18 the way
\* decimal.Div does it (to 16 decimal places), in attoFIL
SelectedPrice(dealConfig, minerConfig) ==
    IF dealConfig.VerifiedDeal THEN ((minerConfig.VerifiedPrice + 50) \div 100) * 100
    ELSE ((minerConfig.Price + 50) \div 100) * 100

\* C8: when the primary source fails and the fallback succeeds the validation
\* goes on with the fallback's ask; for both orderings, on success isBoost is
\* true exactly when the ask came from the direct-provider (boost) query.
C8_IsBoostNamesSource ==
    Queried =>
        /\ (ResultOf(Primary).err # "nil" /\ ResultOf(Fallback).err = "nil") =>
              val.out.source = Fallback
        /\ ResultOf(Primary).err = "nil" => val.out.source = Primary
        /\ val.out.err = "nil" =>
              /\ val.out.isBoost <=> val.out.source = "boost"
              /\ \A c \in val.dealConfig, mc \in ResultOf(val.out.source).cfg :
                    val.out.minerPrice = {SelectedPrice(c, mc)}

C8_Witness ==
    /\ Queried /\ val.out.err = "nil"
    /\ val.boostFirst = <<TRUE>>
    /\ ResultOf("boost").err # "nil"
    /\ val.out.source = "lotus" /\ ~val.out.isBoost

\* C9: a FileSize below the MinPieceSize or above the MaxPieceSize of the ask
\* that was obtained fails with OutOfRange, whichever source supplied the ask
\* and in both orderings; a FileSize equal to either bound is not rejected by
\* the bounds check.
C9_OutOfRange ==
    (Queried /\ val.out.source # "none") =>
        \A c \in val.dealConfig, mc \in ResultOf(val.out.source).cfg :
            /\ (c.FileSize < mc.MinPieceSize \/ c.FileSize > mc.MaxPieceSize)
                  <=> val.out.err = "OutOfRange"
            /\ (c.FileSize = mc.MinPieceSize \/ c.FileSize = mc.MaxPieceSize)
                  => val.out.err # "OutOfRange"

C9_Witness ==
    /\ Queried /\ val.out.err = "OutOfRange"
    /\ val.boostFirst = <<TRUE>> /\ val.out.source = "lotus"
    /\ \E c \in val.dealConfig : c.FileSize = 4

C11_SignErrorsPropagate ==
    \A p \in Callers :
        /\ call[p].readSignErr # "nil" => call[p].getErr = call[p].readSignErr
        /\ (pc[p] = "done" /\ call[p].ret = "nil") => call[p].readSignErr = "nil"
        /\ (pc[p] \in {"loaded", "built", "signed"} /\ call[p].minerAsk.Ask = {})
              => call[p].getErr = "ErrNoRows"

\* a SetAsk call between its load of the prior ask and its persist
InFlight(p) == pc[p] \in {"loaded", "built", "signed"}

\* the call of p has persisted its ask and is about to return nil
Persisted(p) == pc[p] = "done" /\ call[p].ret = "nil"

\* C12: updates of one provider's ask are serialized: of two overlapping SetAsk
\* calls for the same provider at most one is between its load and its
\* persist at any time, and two calls that both persist (neither having met
\* a signing failure when reading the prior ask) persist different sequence
\* numbers.
C12_UpdatesSerialized ==
    \A p, q \in Callers :
        (p # q /\ call[p].miner = call[q].miner) =>
            /\ ~(InFlight(p) /\ InFlight(q))
            /\ (/\ Persisted(p) /\ Persisted(q)
                /\ call[p].readSignErr = "nil" /\ call[q].readSignErr = "nil")
                  => Only(call[p].ask).SeqNo # Only(call[q].ask).SeqNo

\* the lost update alone: both calls persisted the same sequence number
C12_NoLostUpdate ==
    \A p, q \in Callers :
        (/\ p # q /\ call[p].miner = call[q].miner
         /\ Persisted(p) /\ Persisted(q)
         /\ call[p].readSignErr = "nil" /\ call[q].readSignErr = "nil")
            => Only(call[p].ask).SeqNo # Only(call[q].ask).SeqNo

\* ---- the deal proposal ----
\* the piece size and the price per epoch per GiB the caller asked for, before
\* any conversion
CallerPieceSize ==
    IF deal.entry = "StartDealDirect" THEN deal.pieceSize ELSE deal.dealP.PieceSize
CallerPrice ==
    IF deal.entry = "StartDealDirect" THEN deal.epochPrice ELSE deal.dealP.StoragePrice

\* C13: for every positive piece size and non-negative price passed through
\* StartDealDirect or sendDealToMiner, the proposal's StoragePricePerEpoch is
\* floor(pieceSize * pricePerEpochPerGiB / 2^30), the integer conversions on
\* the way included.
C13_PricePerEpoch ==
    \A pr \in deal.proposal :
        (CallerPieceSize > 0 /\ CallerPrice >= 0) =>
            pr.StoragePricePerEpoch = (CallerPieceSize * CallerPrice) \div GiB

\* the same for the values that every conversion on the way keeps
C13_PricePerEpochInRange ==
    \A pr \in deal.proposal :
        (/\ CallerPieceSize > 0 /\ CallerPieceSize < 2^(WordBits - 1)
         /\ CallerPrice >= 0 /\ CallerPrice < 2^(WordBits - 1)) =>
            pr.StoragePricePerEpoch = (CallerPieceSize * CallerPrice) \div GiB

\* C14: every proposal built by dealProposal has EndEpoch = StartEpoch +
\* duration, whichever way sendDealToMiner chose the start epoch (head plus
\* offset, the absolute epoch given, or head plus 5760) and whatever the
\* duration.
C14_EndEpoch ==
    \A pr \in deal.proposal :
        pr.EndEpoch = pr.StartEpoch + deal.dealP.Duration

C14_Witness ==
    /\ dpc = "rpc" /\ deal.fn = "sendDealToMiner"
    /\ deal.dealP.StartEpochHeadOffset # 0 /\ deal.dealP.Duration # 0
    /\ \E pr \in deal.proposal : pr.StartEpoch = 1300 /\ pr.EndEpoch = 519700

\* ---- the price ceiling ----
\* the price the request selects from the ask, divided by 10^18, exactly (a
\* number of FIL counted in attoFIL)
ExactPrice(dealConfig, minerConfig) ==
    IF dealConfig.VerifiedDeal THEN minerConfig.VerifiedPrice ELSE minerConfig.Price

\* the bounds check passed, so the price check was made
PriceChecked ==
    /\ Queried /\ val.out.source # "none"
    /\ val.out.err # "OutOfRange"

\* C15: the price check fails with PriceExceeded exactly when the selected
\* miner price (VerifiedPrice for a verified deal, else Price, divided by
\* 10^18) is greater than MaxPrice, it accepts equality, and on success the
\* price returned is that selected price.
C15_PriceCeiling ==
    PriceChecked =>
        \A c \in val.dealConfig, mc \in ResultOf(val.out.source).cfg :
            /\ val.out.err = "PriceExceeded" <=> ExactPrice(c, mc) > c.MaxPrice
            /\ val.out.err = "nil" => val.out.minerPrice = {ExactPrice(c, mc)}

\* the same with the selected price rounded to 16 decimal places
C15_PriceCeilingRounded ==
    PriceChecked =>
        \A c \in val.dealConfig, mc \in ResultOf(val.out.source).cfg :
            /\ val.out.err = "PriceExceeded" <=> SelectedPrice(c, mc) > c.MaxPrice
            /\ val.out.err = "nil" => val.out.minerPrice = {SelectedPrice(c, mc)}

\* ---- StorageAsk ----
\* the response read carries no signed-ask wrapper, or a wrapper without ask
MalformedAsk ==
    /\ deal.fn = "StorageAsk" /\ deal.rpcErr = "nil"
    /\ \E r \in deal.resp : r.Ask = {} \/ \E w \in r.Ask : w.Ask = {}

\* C16: when the response read by StorageAsk carries a malformed ask, the call
\* returns an error; it does not crash and does not return an AskInfo.
C16_MalformedAskIsAnError ==
    (MalformedAsk /\ dpc # "rpcReturned") =>
        /\ dpc # "panicked"
        /\ dpc = "done" => (deal.ret.err # "nil" /\ deal.ret.uuid # "askinfo")

\* ---- the persisted ask ----
\* C17: after a SetAsk call that succeeds, the persisted ask of its provider
\* has Timestamp equal to the chain height the call read and Expiry equal to
\* Timestamp + duration, also when the chain head has advanced since.
C17_TimestampAndExpiry ==
    \A p \in Callers :
        Persisted(p) =>
            /\ db[call[p].miner] # {}
            /\ \A a \in db[call[p].miner] :
                  /\ a.Timestamp = call[p].tsHeight
                  /\ a.Expiry = a.Timestamp + call[p].duration

C17_Witness ==
    \E p \in Callers :
        /\ Persisted(p) /\ call[p].tsHeight = 1 /\ head = 2
        /\ \E a \in db[call[p].miner] : a.Timestamp = 1 /\ a.SeqNo = 1

\* ---- the signature of SetAsk ----
\* the step in which SetAsk signs its ask (line 172) and keeps it (line 177)
SignStep(p) == pc[p] = "built" /\ pc'[p] = "signed"

\* C18 (as claimed): the signature SetAsk produces is made with the worker key
\* resolved at the chain height recorded in the ask (its Timestamp), also when
\* the chain head advances or the key rotates in between.
C18_SignedAtTimestamp ==
    \A p \in Callers :
        pc[p] = "signed" =>
            \A sa \in asks[call[p].miner] :
                /\ sa.Signature.height = call[p].tsHeight
                /\ sa.Signature.worker = WorkerAt(call[p].tsHeight)

\* C18 (amended): the signature SetAsk produces is over the ask it built and is
\* made with the worker key resolved at the chain head that sign reads at the
\* moment of signing; that is the key as of the ask's Timestamp only when the
\* head has not advanced since the Timestamp was read.
C18_SignedAtCurrentHead ==
    [][\A p \in Callers :
          SignStep(p) =>
              \A sa \in asks'[call[p].miner] :
                  /\ sa.Ask = call[p].ask
                  /\ sa.Signature.height = head
                  /\ sa.Signature.worker = WorkerAt(head)
                  /\ head = call[p].tsHeight =>
                        sa.Signature.worker = WorkerAt(call[p].tsHeight)]_vars

\* signed after the head advanced past the Timestamp and the key rotated
C18_Witness ==
    \E p \in Callers :
        /\ pc[p] = "signed" /\ call[p].tsHeight = 0
        /\ \E sa \in asks[call[p].miner] :
              /\ sa.Signature.worker = "worker-b"
              /\ \E a \in sa.Ask : a.Timestamp = 0

\* ---- the protocol check ----
\* C19: when the connected peer does not advertise the deal protocol 1.2.0,
\* sendDealToMiner fails, with the ProtocolUnsupported error once the peer is
\* connected and the protocol lookup itself succeeded, and on that path no
\* proposal is signed, no stream is opened and nothing is written to the
\* peer; the ProtocolUnsupported error is returned in no other case.
C19_UnsupportedProtocol ==
    /\ (deal.fn = "sendDealToMiner" /\ ~deal.protoSupported) =>
          /\ dpc = "done"
          /\ deal.ret.err # "nil" /\ deal.ret.uuid = ""
          /\ ~Performed("WalletSign") /\ ~Performed("NewStream")
          /\ ~Performed("Write") /\ ~Performed("Read")
          /\ deal.proposal = {}
          /\ (Performed("FirstSupportedProtocol")
                /\ deal.ret.err # "ProtocolLookupError")
                => deal.ret.err = "ProtocolUnsupported"
    /\ (SendDealDone /\ deal.ret.err = "ProtocolUnsupported") =>
          /\ ~deal.protoSupported
          /\ Performed("Connect") /\ Performed("FirstSupportedProtocol")

C19_Witness ==
    /\ SendDealDone /\ ~deal.protoSupported
    /\ deal.ret.err = "ProtocolUnsupported"
    /\ ~InvalidInput(deal.dealP) /\ Performed("Connect")

\* ---- the round trip of doRpc ----
\* the goroutine attempts the write of the request / the read of the response
WriteStep == effects' = Append(effects, "Write")
ReadStep  == effects' = Append(effects, "Read")

\* C20: within one doRpc round trip the write of the request precedes the read
\* of the response, the request is written once and the response read at most
\* once, the read is not attempted when the write failed, and when doRpc
\* returns what the goroutine delivered the one write has been made.
C20_WriteThenRead ==
    [][/\ WriteStep => (~Performed("Write") /\ ~Performed("Read"))
       /\ ReadStep => /\ Performed("Write") /\ ~Performed("Read")
                      /\ io = "read" /\ errc = "empty"
       /\ (dpc = "rpc" /\ dpc' = "rpcReturned"
             /\ deal'.rpcErr # "context canceled") => Performed("Write")
       /\ (dpc = "rpc" /\ dpc' = "rpcReturned"
             /\ deal'.rpcErr = "failed to send request") => ~Performed("Read")
       /\ (dpc = "rpc" /\ dpc' = "rpcReturned" /\ deal'.rpcErr = "nil")
             => (Performed("Write") /\ Performed("Read"))]_vars

C20_Witness ==
    /\ dpc = "done" /\ deal.fn = "doRpc" /\ deal.ret.err = "nil"
    /\ effects = <<"NewStream", "Write", "Read", "StreamClose">>

\* ---- the teardown of the peer connection ----
\* a call of sendDealToMiner or StorageAsk is over, by a return or by a panic
CallOver ==
    /\ dpc \in {"done", "panicked"}
    /\ deal.fn \in {"sendDealToMiner", "StorageAsk"}

\* clinode.Setup succeeded, so the call has a peer host
NodeSetUp == deal.ret.err # "SetupError"

\* Host.NewStream was called and returned a stream
StreamOpened == Performed("NewStream") /\ deal.ret.err # "NewStreamError"

\* the number of times op was performed
Count(op) == Cardinality({i \in 1..Len(effects) : effects[i] = op})

\* the position of the first op among the effects
IndexOf(op) == CHOOSE i \in 1..Len(effects) : effects[i] = op

\* C21: on every return path of sendDealToMiner and StorageAsk taken after the
\* local node is set up (success, rejection, validation failure, connection
\* failure, RPC failure), the peer host is closed, once and as the last thing
\* the call does, and the stream, if it was opened, is closed, once and before
\* the host; when the node was not set up or no stream was opened there is
\* nothing of it to close and nothing is closed.
C21_ClosedOnReturn ==
    CallOver =>
        /\ NodeSetUp =>
              /\ Count("HostClose") = 1
              /\ effects[Len(effects)] = "HostClose"
        /\ ~NodeSetUp => Count("HostClose") = 0
        /\ StreamOpened =>
              /\ Count("StreamClose") = 1
              /\ IndexOf("NewStream") < IndexOf("StreamClose")
              /\ IndexOf("StreamClose") < IndexOf("HostClose")
        /\ ~StreamOpened => Count("StreamClose") = 0

\* a deal that the provider rejected: stream and host are closed on the way out
C21_Witness ==
    /\ CallOver /\ dpc = "done" /\ deal.fn = "sendDealToMiner"
    /\ deal.ret.err = "deal proposal rejected"
    /\ Performed("StreamClose") /\ Performed("HostClose")

\* ---- the start epoch ----
\* C22: the start epoch of the proposal sendDealToMiner builds is the current
\* chain height + StartEpochHeadOffset when only the offset is nonzero, the
\* absolute StartEpoch when only StartEpoch is nonzero, and the current chain
\* height + 5760 when both are zero.
C22_StartEpoch ==
    \A pr \in deal.proposal :
        LET dealP == deal.dealP IN
        /\ (dealP.StartEpochHeadOffset # 0 /\ dealP.StartEpoch = 0) =>
              pr.StartEpoch = deal.height + dealP.StartEpochHeadOffset
        /\ (dealP.StartEpochHeadOffset = 0 /\ dealP.StartEpoch # 0) =>
              pr.StartEpoch = dealP.StartEpoch
        /\ (dealP.StartEpochHeadOffset = 0 /\ dealP.StartEpoch = 0) =>
              pr.StartEpoch = deal.height + 5760

C22_Witness ==
    /\ dpc = "rpc" /\ deal.fn = "sendDealToMiner" /\ deal.height = 1500
    /\ deal.dealP.StartEpochHeadOffset = 300 /\ deal.dealP.StartEpoch = 0
    /\ \E pr \in deal.proposal : pr.StartEpoch = 1800

\* ---- the piece sizes of the persisted ask ----
\* the step in which the SetAsk call of p persists its ask
StoreStep(p) == pc[p] = "signed" /\ pc'[p] = "done" /\ call'[p].ret = "nil"

\* the value the option set gives to a field, if it names the field
OptionFor(options, field) == {o.value : o \in {x \in options : x.field = field}}

\* the piece sizes persisted for the miner before the step, the defaults 256 B
\* and 32 GiB when nothing is persisted
PriorMinPieceSize(m) ==
    IF db[m] = {} THEN DefaultMinPieceSize ELSE Only(db[m]).MinPieceSize
PriorMaxPieceSize(m) ==
    IF db[m] = {} THEN DefaultMaxPieceSize ELSE Only(db[m]).MaxPieceSize

\* the piece sizes the call of p persists are the prior ones, each replaced by
\* the option that names it
SizesInherited(p) ==
    LET m      == call[p].miner
        mins   == OptionFor(call[p].options, "MinPieceSize")
        maxs   == OptionFor(call[p].options, "MaxPieceSize")
    IN  \A new \in db'[m] :
            /\ new.MinPieceSize = IF mins = {} THEN PriorMinPieceSize(m) ELSE Only(mins)
            /\ new.MaxPieceSize = IF maxs = {} THEN PriorMaxPieceSize(m) ELSE Only(maxs)

\* C23: a SetAsk call with no piece-size options persists the provider's
\* previously persisted MinPieceSize and MaxPieceSize unchanged (the defaults
\* on a first call); a piece-size option overrides only the field it names.
C23_PieceSizesInherited ==
    [][\A p \in Callers : StoreStep(p) => SizesInherited(p)]_vars

\* the same for the calls whose read of the prior ask met no signing failure
C23_PieceSizesInheritedIfSigned ==
    [][\A p \in Callers :
          (StoreStep(p) /\ call[p].readSignErr = "nil") => SizesInherited(p)]_vars

\* ---- the prices of StorageAsk ----
\* StorageAsk returned an AskInfo
AskInfoReturned == dpc = "done" /\ deal.fn = "StorageAsk" /\ deal.ret.err = "nil"

\* the ask record of the response that was read
AskRead == {a \in UNION {w.Ask : w \in UNION {r.Ask : r \in deal.resp}} : TRUE}

\* the prices of the AskInfo are those of the claim for the size and duration
PricesAsSpecified ==
    \A info \in deal.info, a \in AskRead :
        LET size     == deal.askSize
            duration == deal.askDuration
            perEpoch == (a.Price * size) \div GiB
        IN  /\ info.EpochPrice = IF size = 0 THEN {} ELSE {perEpoch}
            /\ info.TotalPrice = IF size = 0 \/ duration = 0 THEN {}
                                 ELSE {perEpoch * duration}

\* C24: StorageAsk returns EpochPrice = floor(ask.Price * size / 2^30) and
\* TotalPrice = EpochPrice * duration when size and duration are nonzero; when
\* size is zero neither price is computed, and when only duration is zero
\* EpochPrice is computed and TotalPrice is not.
C24_AskPrices ==
    AskInfoReturned => (deal.info # {} /\ PricesAsSpecified)

\* the same for a size and a duration that are not negative
C24_AskPricesNonNegative ==
    (AskInfoReturned /\ deal.askSize >= 0 /\ deal.askDuration >= 0) =>
        (deal.info # {} /\ PricesAsSpecified)

\* ---- the goroutine of doRpc ----
\* the stream I/O of the goroutine is over, with a result or a failure, and it
\* offers the outcome on errc
IoOver == io = "send"

\* the goroutine has handed over its outcome and returned
GoroutineExited == io = "exited"

C25_TerminatesWhileSelecting ==
    (IoOver /\ dpc = "rpc" /\ ~ctx.done) ~> (GoroutineExited \/ ctx.done)

\* ---- the result of StartDealDirect ----
\* StartDealDirect has returned a nil error
StartDealDirectNil ==
    dpc = "done" /\ deal.entry = "StartDealDirect" /\ deal.sd.err = "nil"

\* a proposal was written to the provider and the response read accepts it
SentAndAccepted ==
    /\ deal.proposal # {}
    /\ Performed("Write") /\ Performed("Read")
    /\ deal.resp # {} /\ \A r \in deal.resp : r.Accepted

\* C26: StartDealDirect returns a nil error only if a proposal was sent to the
\* provider and the provider accepted it, and then the deal identifier
\* returned is not empty; a declined confirmation prompt does not produce a
\* nil-error return.
C26_NilOnlyIfAccepted ==
    StartDealDirectNil => (SentAndAccepted /\ deal.sd.uuid # "")

\* the same for the calls that got past the confirmation prompt
C26_NilOnlyIfAcceptedOnceConfirmed ==
    (StartDealDirectNil /\ deal.fn = "sendDealToMiner") =>
        (SentAndAccepted /\ deal.sd.uuid # "")

\* ---- the in-memory table and the store ----
\* the StorageAsk of the in-memory entry of the miner, if the entry has one
InMemoryAsk(m) == UNION {sa.Ask : sa \in asks[m]}

\* the SetAsk call of p has returned, with or without an error
Returned(p) == pc[p] = "done"

\* C27: after any SetAsk call returns, successfully or with an error, the
\* in-memory entry asks[miner] holds the same StorageAsk as the persisted
\* record of that provider; an ask that failed to sign or failed to persist
\* is not left in the in-memory table.
C27_MemoryMatchesStore ==
    \A p \in Callers :
        Returned(p) => InMemoryAsk(call[p].miner) = db[call[p].miner]

\* the same for the calls in which the store did not fail, neither in the
\* read of the prior ask nor in the persisting, and the signing during the
\* read did not fail
C27_MemoryMatchesStoreUnlessFailed ==
    \A p \in Callers :
        (/\ Returned(p) /\ call[p].readSignErr = "nil"
         /\ call[p].ret \notin {"DbError", "GetAskError"}) =>
            InMemoryAsk(call[p].miner) = db[call[p].miner]

\* ---- the order of the checks of CheckDealConfig ----
CheckConfigDone == chk.pc = "done"

\* C28: the order in which CheckDealConfig tries its two price sources is
\* determined by the value of the lotusFirst argument: the on-chain (lotus)
\* source is tried first when lotusFirst is true, and the direct-provider
\* (boost) source is tried first when lotusFirst is false or absent.
C28_OrderByValue ==
    CheckConfigDone =>
        chk.out.tried[1] = IF chk.lotusFirst = <<TRUE>> THEN "lotus" ELSE "boost"

\* the order by the presence of the argument, whatever its value
C28_OrderByPresence ==
    CheckConfigDone =>
        /\ chk.out.tried[1] = IF chk.lotusFirst # <<>> THEN "lotus" ELSE "boost"
        /\ Len(chk.out.tried) = 2 <=>
              (IF chk.out.tried[1] = "lotus" THEN chk.lotusOut ELSE chk.boostOut).err # "nil"

\* ---- the epochs of the proposal ----
\* the proposal of the call has been written to the provider's stream
ProposalWritten == deal.proposal # {} /\ Performed("Write")

\* C29: every deal proposal that sendDealToMiner writes to a provider has
\* EndEpoch strictly greater than StartEpoch, on every entry path, a call of
\* StartDealDirect with an unset duration included.
C29_EndAfterStart ==
    (ProposalWritten /\ deal.entry = "StartDealDirect") =>
        \A pr \in deal.proposal : pr.EndEpoch > pr.StartEpoch

\* the same for the calls that carry a positive duration
C29_EndAfterStartIfDurationSet ==
    (ProposalWritten /\ deal.dealP.Duration > 0) =>
        \A pr \in deal.proposal : pr.EndEpoch > pr.StartEpoch

\* the validation StartDeal runs first leaves no unset duration behind
C29_ValidatedDurationIsSet ==
    (ValidateDone /\ val.out.err = "nil") =>
        \A c \in val.out.dealConfig : c.Duration # 0

\* ---- the frame of ValidateDealConfig ----
\* the caller's dealConfig after the call is the one before it
ConfigUnchanged == val.out.dealConfig = val.dealConfig

\* the caller's dealConfig after the call is the one before it with an unset
\* Duration replaced by the default
ConfigWithDurationSet ==
    val.out.dealConfig =
        {IF c.Duration = 0 THEN [c EXCEPT !.Duration = DURATION_DEFAULT] ELSE c :
            c \in val.dealConfig}

\* C30: whenever ValidateDealConfig returns an error (no wallet, both sources
\* failed, OutOfRange, PriceExceeded or duration check failed), the caller's
\* dealConfig is left unchanged; its Duration field is replaced by the default
\* only when validation succeeds.
C30_ConfigUnchangedOnError ==
    ValidateDone =>
        /\ val.out.err # "nil" => ConfigUnchanged
        /\ val.out.err = "nil" => ConfigWithDurationSet

\* the same for every error but the failure of the duration check
C30_ConfigUnchangedBeforeDurationCheck ==
    ValidateDone =>
        /\ val.out.err \notin {"nil", "CheckDuration failed"} => ConfigUnchanged
        /\ val.out.err \in {"nil", "CheckDuration failed"} => ConfigWithDurationSet

\* ---- the piece sizes of MarketSetAsk ----
\* the MarketSetAsk request of p asks for a minimum below 256 bytes or for a
\* maximum below the minimum
BadPieceSizes(p) ==
    /\ call[p].via = "MarketSetAsk"
    /\ call[p].minBytes < 256 \/ call[p].maxBytes < call[p].minBytes

\* C31: every ask persisted through MarketSetAsk has 256 <= MinPieceSize <=
\* MaxPieceSize; a request with a min piece size below 256 or with a max piece
\* size below the min piece size returns an error and persists nothing.
C31_PieceSizeBounds ==
    /\ \A m \in Miners : \A a \in db[m] :
          /\ a.MinPieceSize * PieceSizeUnit >= 256
          /\ a.MinPieceSize <= a.MaxPieceSize
    /\ \A p \in Callers :
          (BadPieceSizes(p) /\ Returned(p)) => call[p].ret # "nil"

\* the lower bound alone: no ask with a minimum below 256 bytes is persisted,
\* and a request with such a minimum returns an error before the store is
\* opened
C31_MinAtLeast256 ==
    /\ \A m \in Miners : \A a \in db[m] : a.MinPieceSize * PieceSizeUnit >= 256
    /\ \A p \in Callers :
          (call[p].via = "MarketSetAsk" /\ call[p].minBytes < 256) =>
              /\ pc[p] = "done"
              /\ call[p].ret = "MinPieceSizeTooSmall" \/
                    call[p].ret \in {"ParsePriceError", "ParseVerifiedPriceError",
                                     "ParseMinPieceSizeError"}
              /\ call[p].ask = {}
=============================================================================
